---- MODULE Spec2Model ----
(***************************************************************************)
(* Model of src/app.py (study plan tracker): the schedule generator        *)
(* create_study_schedule and the progress state kept in                    *)
(* st.session_state.user_progress with its operations.                     *)
(*                                                                         *)
(* Python values are modelled as follows.                                  *)
(*   str            a TLA+ string                                          *)
(*   datetime.date  its proleptic Gregorian ordinal (date.toordinal())     *)
(*   ordered dict   a sequence of items [k |-> key, v |-> value]           *)
(*   list           a sequence                                             *)
(***************************************************************************)
EXTENDS Integers, Sequences, FiniteSets, TLC

VARIABLES
    study_data,     \* the catalog returned by load_study_plan()
    start_date,     \* the start date handed to create_study_schedule
    schedule,       \* what the last create_study_schedule call returned
    user_progress,  \* st.session_state.user_progress
    now,            \* the clock read by datetime.now()
    backup,         \* the text returned by the last export_progress_data
    last            \* the last operation: its name, arguments and outcome

vars == <<study_data, start_date, schedule, user_progress, now, backup, last>>

-----------------------------------------------------------------------------
(* Bounds of the model *)

MaxStages == 6      \* stages in a catalog handed to the schedule generator
MaxSpan == 5        \* start dates range over the MaxSpan days before the end date
MaxOps == 3         \* operations on the progress state in one behaviour
MaxPosition == 2    \* positions of a resource in its list, for the key derivation

-----------------------------------------------------------------------------
(* datetime.date: calendar arithmetic, strftime and strptime *)

EndYear == 2025
EndMonth == 10
EndDay == 4

Years == (EndYear - 1)..(EndYear + 1)

IsLeap(y) == (y % 4 = 0) /\ ((y % 100 # 0) \/ (y % 400 = 0))

DaysInMonth(y, m) ==
    IF m = 2 THEN (IF IsLeap(y) THEN 29 ELSE 28)
    ELSE IF m \in {4, 6, 9, 11} THEN 30 ELSE 31

DaysBeforeYear(y) ==
    (y - 1) * 365 + ((y - 1) \div 4) - ((y - 1) \div 100) + ((y - 1) \div 400)

RECURSIVE DaysBeforeMonth(_, _)
DaysBeforeMonth(y, m) ==
    IF m = 1 THEN 0 ELSE DaysBeforeMonth(y, m - 1) + DaysInMonth(y, m - 1)

\* datetime(y, m, d).date()
date(y, m, d) == DaysBeforeYear(y) + DaysBeforeMonth(y, m) + d

YearOf(n) ==
    CHOOSE y \in Years : DaysBeforeYear(y) < n /\ n <= DaysBeforeYear(y + 1)

MonthOf(n) ==
    LET y == YearOf(n)
        r == n - DaysBeforeYear(y)
    IN  CHOOSE m \in 1..12 :
            DaysBeforeMonth(y, m) < r /\ r <= DaysBeforeMonth(y, m) + DaysInMonth(y, m)

DayOf(n) == n - DaysBeforeYear(YearOf(n)) - DaysBeforeMonth(YearOf(n), MonthOf(n))

Pad2(n) == IF n < 10 THEN "0" \o ToString(n) ELSE ToString(n)

\* d.strftime("%d/%m/%Y")
strftime(n) == Pad2(DayOf(n)) \o "/" \o Pad2(MonthOf(n)) \o "/" \o ToString(YearOf(n))

\* d.isoformat() of a date
date_isoformat(n) == ToString(YearOf(n)) \o "-" \o Pad2(MonthOf(n)) \o "-" \o Pad2(DayOf(n))

DigitVal(c) ==
    CASE c = "0" -> 0 [] c = "1" -> 1 [] c = "2" -> 2 [] c = "3" -> 3 [] c = "4" -> 4
      [] c = "5" -> 5 [] c = "6" -> 6 [] c = "7" -> 7 [] c = "8" -> 8 [] c = "9" -> 9

RECURSIVE ParseInt(_)
ParseInt(s) ==
    IF Len(s) = 0 THEN 0
    ELSE 10 * ParseInt(SubSeq(s, 1, Len(s) - 1)) + DigitVal(SubSeq(s, Len(s), Len(s)))

\* datetime.strptime(s, "%d/%m/%Y").date()
strptime(s) == date(ParseInt(SubSeq(s, 7, 10)), ParseInt(SubSeq(s, 4, 5)), ParseInt(SubSeq(s, 1, 2)))

\* end_date_fixed = datetime(2025, 10, 4).date()
end_date_fixed == date(EndYear, EndMonth, EndDay)

-----------------------------------------------------------------------------
(* Ordered dicts *)

dict_keys(d) == [i \in 1..Len(d) |-> d[i].k]

-----------------------------------------------------------------------------
(* create_study_schedule *)

\* int(x / y) for Python ints x and y # 0: true division, then truncation towards zero
int_div(x, y) == IF x >= 0 THEN x \div y ELSE -((-x) \div y)

\* total_days_available = (end_date_fixed - start_date).days + 1
total_days_available(start, end) == (end - start) + 1

\* len([week_name for week_name, subjects in weeks_data.items() if subjects])
num_study_weeks(weeks_data) ==
    Cardinality({i \in 1..Len(weeks_data) : Len(weeks_data[i].v) > 0})

\* if num_study_weeks > 0: ... else: return schedule
has_study_weeks_mut(n) == TRUE
has_study_weeks(n) == n > 0

\* week_end = week_start + timedelta(days=int(avg_days_per_week) - 1)
week_end_by_average(week_start, total, n) == week_start + (int_div(total, n) - 1)

\* if week_name == list(weeks_data.keys())[-1]
is_last_week(weeks_data, week_name) ==
    week_name = dict_keys(weeks_data)[Len(weeks_data)]

\* current_date = week_end + timedelta(days=1)
next_current_date_mut(week_end) == week_end
next_current_date(week_end) == week_end + 1

\* The for loop of create_study_schedule from item i on.
RECURSIVE schedule_loop(_, _, _, _, _, _)
schedule_loop(weeks_data, i, current_date, end, avg, acc) ==
    IF i > Len(weeks_data) THEN acc
    ELSE
        LET week_name == weeks_data[i].k
            subjects == weeks_data[i].v
        IN  IF Len(subjects) = 0
            THEN schedule_loop(weeks_data, i + 1, current_date, end, avg, acc)
            ELSE
                LET week_start == current_date
                    week_end == IF is_last_week(weeks_data, week_name)
                                THEN end
                                ELSE week_end_by_average(week_start, avg[1], avg[2])
                    entry == [Etapa |-> week_name,
                              Data_Inicio |-> strftime(week_start),
                              Data_Fim |-> strftime(week_end),
                              Materias |-> dict_keys(subjects)]
                IN  schedule_loop(weeks_data, i + 1, next_current_date(week_end),
                                  end, avg, Append(acc, entry))

\* create_study_schedule(start_date, end_date_fixed, weeks_data): the returned
\* list, or a raised ZeroDivisionError.
create_study_schedule(start, end, weeks_data) ==
    LET total == total_days_available(start, end)
        n == num_study_weeks(weeks_data)
    IN  IF has_study_weeks(n)
        THEN IF n = 0
             THEN [raised |-> TRUE, value |-> <<>>]
             ELSE [raised |-> FALSE,
                   value |-> schedule_loop(weeks_data, 1, start, end, <<total, n>>, <<>>)]
        ELSE [raised |-> FALSE, value |-> <<>>]

-----------------------------------------------------------------------------
(* Catalogs (study_plan.json): stage -> subject -> resource type -> resources *)

Resource(description) ==
    [description |-> description, url |-> "https://example.org/" \o description]

\* The subjects of a non-empty stage i.
StageSubjects(i) ==
    << [k |-> "Materia " \o ToString(i),
        v |-> << [k |-> "PDFs", v |-> << Resource("Apostila " \o ToString(i)) >>] >>] >>

\* Every catalog of at most MaxStages stages, each stage empty or not.
ScheduleCatalogs ==
    UNION { { [i \in 1..n |-> [k |-> "Etapa " \o ToString(i),
                               v |-> IF i \in S THEN StageSubjects(i) ELSE << >>]]
              : S \in SUBSET (1..n) }
            : n \in 0..MaxStages }

\* Start dates: 2025-01-01, and the days around the fixed end date.
StartDates ==
    {date(EndYear, 1, 1)} \cup {end_date_fixed - d : d \in (-2)..MaxSpan}

-----------------------------------------------------------------------------
(* Python values held in the session and in a parsed backup. A value is the  *)
(* pair <<type, content>>, as the operations branch on the type: x[1] is the *)
(* type and x[2] the content, for a dict the function from its keys and for  *)
(* a list the sequence of its elements.                                      *)

PyStr(s) == <<"str", s>>
PyInt(n) == <<"int", n>>
PyBool(b) == <<"bool", b>>
PyNone == <<"None">>
PyList(seq) == <<"list", seq>>
PyDict(f) == <<"dict", f>>

\* d[key] = value
DictSet(f, key, value) ==
    [x \in (DOMAIN f) \cup {key} |-> IF x = key THEN value ELSE f[x]]

\* sub in s, for two strings
Contains(s, sub) ==
    \E i \in 1..(Len(s) - Len(sub) + 1) : SubSeq(s, i, i + Len(sub) - 1) = sub

\* The types whose values support "key in x" for a string key.
Containers == {"dict", "list", "str"}

\* key in x, for a string key and x of a type in Containers
py_in(key, x) ==
    CASE x[1] = "dict" -> key \in DOMAIN x[2]
      [] x[1] = "list" -> \E i \in 1..Len(x[2]) : x[2][i] = PyStr(key)
      [] x[1] = "str" -> Contains(x[2], key)

\* lst.remove(value): the first occurrence is removed
list_remove_mut(seq, value) == seq
list_remove(seq, value) ==
    LET i == CHOOSE j \in 1..Len(seq) :
                 seq[j] = value /\ \A h \in 1..(j - 1) : seq[h] # value
    IN  SubSeq(seq, 1, i - 1) \o SubSeq(seq, i + 1, Len(seq))

-----------------------------------------------------------------------------
(* The text of a backup, as the JSON document it denotes, a pair             *)
(* <<kind, content>>; Invalid is a text that is no JSON document.            *)

JString(s) == <<"string", s>>
JNumber(n) == <<"number", n>>
JTrue == <<"true">>
JFalse == <<"false">>
JNull == <<"null">>
JArray(seq) == <<"array", seq>>
JObject(f) == <<"object", f>>
Invalid == <<"invalid">>
NoBackup == <<"none">>

\* json.dumps(x, ensure_ascii=False, indent=2)
RECURSIVE json_dumps(_)
json_dumps(x) ==
    CASE x[1] = "dict" -> JObject([key \in DOMAIN x[2] |-> json_dumps(x[2][key])])
      [] x[1] = "list" -> JArray([i \in 1..Len(x[2]) |-> json_dumps(x[2][i])])
      [] x[1] = "str" -> JString(x[2])
      [] x[1] = "int" -> JNumber(x[2])
      [] x[1] = "bool" -> IF x[2] THEN JTrue ELSE JFalse
      [] x[1] = "None" -> JNull

\* The value of a JSON document.
RECURSIVE json_value(_)
json_value(doc) ==
    CASE doc[1] = "object" -> PyDict([key \in DOMAIN doc[2] |-> json_value(doc[2][key])])
      [] doc[1] = "array" -> PyList([i \in 1..Len(doc[2]) |-> json_value(doc[2][i])])
      [] doc[1] = "string" -> PyStr(doc[2])
      [] doc[1] = "number" -> PyInt(doc[2])
      [] doc[1] = "true" -> PyBool(TRUE)
      [] doc[1] = "false" -> PyBool(FALSE)
      [] doc[1] = "null" -> PyNone

\* json.loads(text): the value, or a raised json.JSONDecodeError
json_loads(text) ==
    IF text[1] = "invalid"
    THEN [decode_error |-> TRUE]
    ELSE [decode_error |-> FALSE, value |-> json_value(text)]

-----------------------------------------------------------------------------
(* The clock: one reading an hour, the session starting 2025-09-30 at 22h.   *)

session_epoch == [day |-> date(EndYear, 9, 30), hour |-> 22]

\* datetime.now().date()
today(n) == session_epoch.day + ((session_epoch.hour + n) \div 24)

\* datetime.now().isoformat()
now_isoformat(n) ==
    date_isoformat(today(n)) \o "T" \o Pad2((session_epoch.hour + n) % 24) \o ":00:00"

-----------------------------------------------------------------------------
(* The operations on st.session_state.user_progress. Each yields the state   *)
(* it leaves, what it returns and whether it raised.                         *)

Absent == <<"absent">>

Returns(up, value) == [up |-> up, raised |-> FALSE, ret |-> value]
Raises(up, exception) == [up |-> up, raised |-> TRUE, ret |-> <<"exception", exception>>]

default_user_progress(n) ==
    PyDict([start_date |-> PyStr(date_isoformat(today(n))),
            completed_resources |-> PyList(<< >>),
            settings |-> PyDict([notifications |-> PyBool(TRUE), theme |-> PyStr("light")]),
            last_access |-> PyStr(now_isoformat(n)),
            study_sessions |-> PyList(<< >>),
            initialization_date |-> PyStr(now_isoformat(n))])

\* initialize_user_data()
initialize_user_data(up, n) ==
    IF up[1] = "absent" THEN default_user_progress(n) ELSE up

\* st.session_state.user_progress["last_access"] = datetime.now().isoformat(),
\* for user_progress a dict
set_last_access(up, n) == PyDict(DictSet(up[2], "last_access", PyStr(now_isoformat(n))))

\* update_last_access()
update_last_access(up, n) ==
    IF up[1] = "absent" THEN Returns(up, PyNone)
    ELSE IF up[1] = "dict" THEN Returns(set_last_access(up, n), PyNone)
    ELSE Raises(up, "TypeError")

\* st.session_state.user_progress[key]: the value, or what the subscript raises
subscript_error(up, key) ==
    IF up[1] = "absent" THEN "AttributeError"
    ELSE IF up[1] # "dict" THEN "TypeError"
    ELSE IF key \notin DOMAIN up[2] THEN "KeyError"
    ELSE "none"

\* export_progress_data()
export_progress_data(up, n) ==
    IF up[1] = "absent" THEN Returns(up, json_dumps(PyDict(<< >>)))
    ELSE IF up[1] = "str" THEN Raises(up, "AttributeError")
    ELSE IF up[1] # "dict" THEN Raises(up, "TypeError")
    ELSE Returns(up, json_dumps(PyDict(DictSet(up[2], "export_date", PyStr(now_isoformat(n))))))

\* required_keys = ["start_date", "completed_resources", "study_sessions"]
required_keys_mut == <<"start_date", "completed_resources">>
required_keys == <<"start_date", "completed_resources", "study_sessions">>

\* import_progress_data(imported_data)
import_progress_data(up, imported_data, n) ==
    LET parsed == json_loads(imported_data)
    IN  IF parsed.decode_error THEN Returns(up, PyBool(FALSE))
        ELSE
            LET data == parsed.value
            IN  IF data[1] \notin Containers THEN Raises(up, "TypeError")
                ELSE IF \A i \in 1..Len(required_keys) : py_in(required_keys[i], data)
                THEN IF data[1] = "dict"
                     THEN Returns(set_last_access(data, n), PyBool(TRUE))
                     ELSE Raises(data, "TypeError")
                ELSE Returns(up, PyBool(FALSE))

\* resource_key not in / in st.session_state.user_progress["completed_resources"],
\* then the append or remove and update_last_access()
add_completed_resource(up0, resource_key, n) ==
    LET up == initialize_user_data(up0, n)
        err == subscript_error(up, "completed_resources")
    IN  IF err # "none" THEN Raises(up, err)
        ELSE
            LET completed == up[2]["completed_resources"]
            IN  IF completed[1] \notin Containers THEN Raises(up, "TypeError")
                ELSE IF py_in(resource_key, completed) THEN Returns(up, PyNone)
                ELSE IF completed[1] # "list" THEN Raises(up, "AttributeError")
                ELSE Returns(
                        set_last_access(
                            PyDict(DictSet(up[2], "completed_resources",
                                           PyList(Append(completed[2], PyStr(resource_key))))),
                            n),
                        PyNone)

\* remove_completed_resource(resource_key)
remove_completed_resource(up0, resource_key, n) ==
    LET up == initialize_user_data(up0, n)
        err == subscript_error(up, "completed_resources")
    IN  IF err # "none" THEN Raises(up, err)
        ELSE
            LET completed == up[2]["completed_resources"]
            IN  IF completed[1] \notin Containers THEN Raises(up, "TypeError")
                ELSE IF ~py_in(resource_key, completed) THEN Returns(up, PyNone)
                ELSE IF completed[1] # "list" THEN Raises(up, "AttributeError")
                ELSE Returns(
                        set_last_access(
                            PyDict(DictSet(up[2], "completed_resources",
                                           PyList(list_remove(completed[2], PyStr(resource_key))))),
                            n),
                        PyNone)

\* is_resource_completed(resource_key)
is_resource_completed(up0, resource_key, n) ==
    LET up == initialize_user_data(up0, n)
        err == subscript_error(up, "completed_resources")
    IN  IF err # "none" THEN Raises(up, err)
        ELSE IF up[2]["completed_resources"][1] \notin Containers THEN Raises(up, "TypeError")
        ELSE Returns(up, PyBool(py_in(resource_key, up[2]["completed_resources"])))

\* update_start_date(new_date)
update_start_date(up0, new_date, n) ==
    LET up == initialize_user_data(up0, n)
    IN  IF up[1] # "dict" THEN Raises(up, "TypeError")
        ELSE Returns(
                set_last_access(PyDict(DictSet(up[2], "start_date", PyStr(date_isoformat(new_date)))), n),
                PyNone)

\* add_study_session(duration_minutes, subjects_studied)
add_study_session(up0, duration_minutes, subjects_studied, n) ==
    LET up == initialize_user_data(up0, n)
        session == PyDict([date |-> PyStr(now_isoformat(n)),
                           duration_minutes |-> PyInt(duration_minutes),
                           subjects |-> PyList([i \in 1..Len(subjects_studied) |->
                                                   PyStr(subjects_studied[i])])])
        err == subscript_error(up, "study_sessions")
    IN  IF err # "none" THEN Raises(up, err)
        ELSE IF up[2]["study_sessions"][1] # "list" THEN Raises(up, "AttributeError")
        ELSE Returns(
                set_last_access(
                    PyDict(DictSet(up[2], "study_sessions",
                                   PyList(Append(up[2]["study_sessions"][2], session)))),
                    n),
                PyNone)

-----------------------------------------------------------------------------
(* main(): the start of every run of the page, and the views whose code is   *)
(* written inline in it.                                                     *)

\* initialize_user_data(); update_last_access();
\* completed_count = len(st.session_state.user_progress["completed_resources"])
main_start(up0, n) ==
    LET r == update_last_access(initialize_user_data(up0, n), n)
    IN  IF r.raised THEN r
        ELSE IF "completed_resources" \notin DOMAIN r.up[2] THEN Raises(r.up, "KeyError")
        ELSE IF r.up[2]["completed_resources"][1] \notin Containers THEN Raises(r.up, "TypeError")
        ELSE r

\* The start of the view "Dados e Backup":
\* init_date = datetime.fromisoformat(st.session_state.user_progress["initialization_date"])
dados_e_backup_start(up0, n) ==
    LET r == main_start(up0, n)
    IN  IF r.raised THEN r
        ELSE IF "initialization_date" \notin DOMAIN r.up[2] THEN Raises(r.up, "KeyError")
        ELSE r

\* st.session_state.user_progress["completed_resources"] = []
clear_completed_resources_mut(f) ==
    DictSet(DictSet(f, "completed_resources", PyList(<< >>)), "study_sessions", PyList(<< >>))
clear_completed_resources(f) == DictSet(f, "completed_resources", PyList(<< >>))

\* The button "Resetar apenas progresso"
reset_progress_only(up0, n) ==
    LET r == dados_e_backup_start(up0, n)
    IN  IF r.raised THEN r
        ELSE Returns(set_last_access(PyDict(clear_completed_resources(r.up[2])), n), PyNone)

\* The button "Reset completo"
reset_all(up0, n) ==
    LET r == dados_e_backup_start(up0, n)
    IN  IF r.raised THEN r
        ELSE Returns(PyDict([start_date |-> PyStr(date_isoformat(today(n))),
                             completed_resources |-> PyList(<< >>),
                             settings |-> PyDict([notifications |-> PyBool(TRUE),
                                                  theme |-> PyStr("light")]),
                             last_access |-> PyStr(now_isoformat(n)),
                             study_sessions |-> PyList(<< >>),
                             initialization_date |-> PyStr(now_isoformat(n))]),
                     PyNone)

KeyPrefixLen == 20

\* f"{week_name}_{subject_name}_{resource_type}_{i}_{resource['description'][:20]}"
resource_key_mut(week_name, subject_name, resource_type, i, description) ==
    week_name \o "_" \o resource_type \o "_" \o ToString(i) \o "_"
        \o SubSeq(description, 1, IF Len(description) < KeyPrefixLen
                                  THEN Len(description) ELSE KeyPrefixLen)
resource_key(week_name, subject_name, resource_type, i, description) ==
    week_name \o "_" \o subject_name \o "_" \o resource_type \o "_" \o ToString(i) \o "_"
        \o SubSeq(description, 1, IF Len(description) < KeyPrefixLen
                                  THEN Len(description) ELSE KeyPrefixLen)

\* The places <<stage, subject, resource type, position>> that the nested loops
\* over stage w of a catalog visit.
StagePlaces(catalog, w) ==
    UNION { UNION { { <<w, sb, rt, i>> : i \in 1..Len(catalog[w].v[sb].v[rt].v) }
                    : rt \in 1..Len(catalog[w].v[sb].v) }
            : sb \in 1..Len(catalog[w].v) }

\* The resource_key computed at a place.
PlaceKey(catalog, p) ==
    resource_key(catalog[p[1]].k,
                 catalog[p[1]].v[p[2]].k,
                 catalog[p[1]].v[p[2]].v[p[3]].k,
                 p[4],
                 catalog[p[1]].v[p[2]].v[p[3]].v[p[4]].description)

\* completed_resources = len(st.session_state.user_progress["completed_resources"])
completed_count(up) == Len(up[2]["completed_resources"][2])

\* if total_resources > 0
has_resources(total_resources) == total_resources > 0

\* if week_total > 0
has_week_total_mut(week_total) == TRUE
has_week_total(week_total) == week_total > 0

\* if total_sessions > 0
has_sessions(total_sessions) == total_sessions > 0

\* st.session_state.user_progress.get("study_sessions", [])
get_study_sessions(up) ==
    IF "study_sessions" \in DOMAIN up[2] THEN up[2]["study_sessions"] ELSE PyList(<< >>)

\* A session of the list has an integer duration_minutes.
has_duration(session) ==
    /\ session[1] = "dict"
    /\ "duration_minutes" \in DOMAIN session[2]
    /\ session[2]["duration_minutes"][1] = "int"

\* sum(session["duration_minutes"] for session in study_sessions)
RECURSIVE total_study_time(_)
total_study_time(sessions) ==
    IF Len(sessions) = 0 THEN 0
    ELSE total_study_time(SubSeq(sessions, 1, Len(sessions) - 1))
            + sessions[Len(sessions)][2]["duration_minutes"][2]

NoStatistics == <<"none">>

\* The view "Progresso": total_resources, completed_resources,
\* progress_percentage (as the fraction <<numerator, denominator>>), the
\* statistics of the study sessions and, per stage, week_completed, week_total
\* and week_progress. A division by zero raises ZeroDivisionError.
progress_view(up0, catalog, n) ==
    LET r == main_start(up0, n)
    IN  IF r.raised THEN r
        ELSE
            LET completed == r.up[2]["completed_resources"]
                total_resources == Cardinality(UNION {StagePlaces(catalog, w) : w \in 1..Len(catalog)})
                completed_resources == completed_count(r.up)
                completed_set == {completed[2][i] : i \in 1..Len(completed[2])}
                shown == has_resources(total_resources)
                study_sessions == get_study_sessions(r.up)
                listed == shown /\ study_sessions[1] = "list" /\ Len(study_sessions[2]) > 0
                total_sessions == Len(study_sessions[2])
                weeks == IF shown
                         THEN {w \in 1..Len(catalog) : Len(catalog[w].v) > 0}
                         ELSE {}
                week_total == [w \in weeks |-> Cardinality(StagePlaces(catalog, w))]
                week_completed == [w \in weeks |->
                    Cardinality({p \in StagePlaces(catalog, w) :
                                    PyStr(PlaceKey(catalog, p)) \in completed_set})]
            IN  IF shown /\ study_sessions[1] \notin {"list", "None"} THEN Raises(r.up, "TypeError")
                ELSE IF listed /\ \E i \in 1..total_sessions : ~has_duration(study_sessions[2][i])
                THEN Raises(r.up, "TypeError")
                ELSE IF \/ shown /\ total_resources = 0
                        \/ listed /\ has_sessions(total_sessions) /\ total_sessions = 0
                        \/ \E w \in weeks : has_week_total(week_total[w]) /\ week_total[w] = 0
                THEN Raises(r.up, "ZeroDivisionError")
                ELSE Returns(r.up,
                    <<"metrics",
                    [total_resources |-> total_resources,
                     completed_resources |-> completed_resources,
                     progress_percentage |-> IF shown
                                             THEN <<completed_resources * 100, total_resources>>
                                             ELSE <<0, 1>>,
                     statistics |-> IF listed
                                    THEN <<"statistics",
                                           [total_sessions |-> total_sessions,
                                            total_study_time |-> total_study_time(study_sessions[2]),
                                            avg_session |->
                                                IF has_sessions(total_sessions)
                                                THEN <<total_study_time(study_sessions[2]),
                                                       total_sessions>>
                                                ELSE <<0, 0>>]>>
                                    ELSE NoStatistics,
                     week_total |-> week_total,
                     week_completed |-> week_completed,
                     week_progress |-> [w \in {x \in weeks : has_week_total(week_total[x])} |->
                                           <<week_completed[w] * 100, week_total[w]>>]]>>)

\* The view "Estudo por Etapa" at the resource of place p, its button pressed:
\* is_completed = is_resource_completed(resource_key), then
\* remove_completed_resource or add_completed_resource.
display_subject_resources(up0, catalog, p, n) ==
    LET r == main_start(up0, n)
    IN  IF r.raised THEN r
        ELSE
            LET is_completed == is_resource_completed(r.up, PlaceKey(catalog, p), n)
            IN  IF is_completed.raised THEN is_completed
                ELSE IF is_completed.ret = PyBool(TRUE)
                THEN remove_completed_resource(is_completed.up, PlaceKey(catalog, p), n)
                ELSE add_completed_resource(is_completed.up, PlaceKey(catalog, p), n)

\* c.lower(), for a character c
LowerChar_mut(c) == c
LowerChar(c) ==
    CASE c = "A" -> "a" [] c = "B" -> "b" [] c = "C" -> "c" [] c = "D" -> "d"
      [] c = "E" -> "e" [] c = "F" -> "f" [] c = "G" -> "g" [] c = "H" -> "h"
      [] c = "I" -> "i" [] c = "J" -> "j" [] c = "K" -> "k" [] c = "L" -> "l"
      [] c = "M" -> "m" [] c = "N" -> "n" [] c = "O" -> "o" [] c = "P" -> "p"
      [] c = "Q" -> "q" [] c = "R" -> "r" [] c = "S" -> "s" [] c = "T" -> "t"
      [] c = "U" -> "u" [] c = "V" -> "v" [] c = "W" -> "w" [] c = "X" -> "x"
      [] c = "Y" -> "y" [] c = "Z" -> "z" [] OTHER -> c

\* s.lower()
RECURSIVE lower(_)
lower(s) ==
    IF Len(s) = 0 THEN s
    ELSE lower(SubSeq(s, 1, Len(s) - 1)) \o LowerChar(SubSeq(s, Len(s), Len(s)))

\* The lists of a list, one after the other.
RECURSIVE Concat(_)
Concat(lists) == IF Len(lists) = 0 THEN << >> ELSE Head(lists) \o Concat(Tail(lists))

\* The places <<stage, subject, resource type, position>> in the order in which
\* the four nested loops of the search visit them.
search_places(catalog) ==
    Concat([w \in 1..Len(catalog) |->
        Concat([sb \in 1..Len(catalog[w].v) |->
            Concat([rt \in 1..Len(catalog[w].v[sb].v) |->
                [i \in 1..Len(catalog[w].v[sb].v[rt].v) |-> <<w, sb, rt, i>>]])])])

PlaceResource(catalog, p) == catalog[p[1]].v[p[2]].v[p[3]].v[p[4]]

\* "✅" if is_completed else "❌", and none for a call that raised
Concluido(is_completed) ==
    IF is_completed.raised THEN "raised"
    ELSE IF is_completed.ret = PyBool(TRUE) THEN "[v]" ELSE "[x]"

\* if search_term
has_search_term_mut(search_term) == TRUE
has_search_term(search_term) == search_term # ""

\* if search_term.lower() in resource['description'].lower()
search_matches(search_term, resource) ==
    Contains(lower(resource.description), lower(search_term))

\* The view "Buscar Recursos": search_results
search_view(up0, catalog, search_term, n) ==
    LET r == main_start(up0, n)
    IN  IF r.raised THEN r
        ELSE IF ~has_search_term(search_term) THEN Returns(r.up, <<"search_results", << >>>>)
        ELSE
            LET found == SelectSeq(search_places(catalog),
                                   LAMBDA p : search_matches(search_term, PlaceResource(catalog, p)))
                up == IF Len(found) = 0 THEN r.up ELSE initialize_user_data(r.up, n)
                search_results ==
                    [j \in 1..Len(found) |->
                        [Etapa |-> catalog[found[j][1]].k,
                         Materia |-> catalog[found[j][1]].v[found[j][2]].k,
                         Tipo |-> catalog[found[j][1]].v[found[j][2]].v[found[j][3]].k,
                         Descricao |-> PlaceResource(catalog, found[j]).description,
                         URL |-> PlaceResource(catalog, found[j]).url,
                         Concluido |-> Concluido(is_resource_completed(up, PlaceKey(catalog, found[j]), n)),
                         Key |-> PlaceKey(catalog, found[j])]]
            IN  IF \E j \in 1..Len(found) :
                        is_resource_completed(up, PlaceKey(catalog, found[j]), n).raised
                THEN Raises(up, "TypeError")
                ELSE Returns(up, <<"search_results", search_results>>)

-----------------------------------------------------------------------------
(* The catalog and the inputs of the operations on the progress state *)

ProgressCatalog ==
    << [k |-> "Etapa 1",
        v |-> << [k |-> "Portugues",
                  v |-> << [k |-> "PDFs",
                            v |-> << Resource("Gramatica"),
                                     Resource("Questoes em PDF"),
                                     Resource("Apostila em Word") >>],
                           [k |-> "Videos",
                            v |-> << Resource("Aula 1"), Resource("Aula 2") >>] >>],
                 [k |-> "Direito",
                  v |-> << [k |-> "PDFs",
                            v |-> << Resource("Constituicao Federal comentada"),
                                     Resource("Lei 8112") >>] >>] >>],
       [k |-> "Etapa 2", v |-> << >>],
       [k |-> "Etapa 3",
        v |-> << [k |-> "Estatistica",
                  v |-> << [k |-> "PDFs",
                            v |-> << Resource("Probabilidade"),
                                     Resource("Inferencia"),
                                     Resource("Regressao") >>],
                           [k |-> "Videos", v |-> << >>] >>] >>] >>

ProgressCatalogs == {ProgressCatalog}

Key1 == PlaceKey(ProgressCatalog, <<1, 1, 1, 1>>)
Key2 == PlaceKey(ProgressCatalog, <<1, 2, 1, 1>>)
Key3 == PlaceKey(ProgressCatalog, <<3, 1, 1, 2>>)
Key4 == PlaceKey(ProgressCatalog, <<1, 1, 2, 2>>)

\* The keys handed to the operations: keys of resources of the catalog.
Keys == {Key1, Key4}

\* A backup with the three required fields only; its list of completed
\* resources holds one key twice.
MinimalBackup ==
    JObject([start_date |-> JString("2025-09-01"),
             completed_resources |-> JArray(<<JString(Key1), JString(Key1)>>),
             study_sessions |-> JArray(<< >>)])

\* A backup as export_progress_data writes it, three resources completed.
FullBackup ==
    JObject([start_date |-> JString("2025-09-01"),
             completed_resources |-> JArray(<<JString(Key1), JString(Key2), JString(Key3)>>),
             settings |-> JObject([notifications |-> JFalse, theme |-> JString("dark")]),
             last_access |-> JString("2025-09-02T10:00:00"),
             study_sessions |-> JArray(<<JObject([date |-> JString("2025-09-02T09:00:00"),
                                                 duration_minutes |-> JNumber(45),
                                                 subjects |-> JArray(<<JString("Portugues")>>)])>>),
             initialization_date |-> JString("2025-09-01T08:00:00"),
             export_date |-> JString("2025-09-02T10:00:00")])

\* FullBackup without one of its fields.
Without(doc, field) ==
    JObject([key \in (DOMAIN doc[2]) \ {field} |-> doc[2][key]])

RequiredFields == {"start_date", "completed_resources", "study_sessions"}

\* The texts handed to import_progress_data.
ImportTexts ==
    << Invalid, JNumber(7), JNull, JTrue, JString("abc"),
       JString("start_date completed_resources study_sessions"),
       JArray(<< >>),
       JArray(<<JString("start_date"), JString("completed_resources"), JString("study_sessions")>>),
       MinimalBackup, FullBackup,
       Without(FullBackup, "start_date"),
       Without(FullBackup, "completed_resources"),
       Without(FullBackup, "study_sessions") >>

NewStartDates == {date(EndYear, 1, 1)}

\* A catalog with an empty stage, a stage whose resource lists are empty and a
\* stage whose subject has no resource type.
SparseCatalog ==
    << [k |-> "Etapa 1",
        v |-> << [k |-> "Portugues",
                  v |-> << [k |-> "PDFs",
                            v |-> << Resource("Questoes em PDF"),
                                     Resource("Apostila em Word") >>],
                           [k |-> "Videos", v |-> << Resource("Aula 1") >>] >>],
                 [k |-> "Direito",
                  v |-> << [k |-> "PDFs",
                            v |-> << Resource("Lei 8112"),
                                     Resource("Questoes de prova em pdf") >>] >>] >>],
       [k |-> "Etapa 2", v |-> << >>],
       [k |-> "Etapa 3",
        v |-> << [k |-> "Estatistica",
                  v |-> << [k |-> "PDFs", v |-> << >>], [k |-> "Videos", v |-> << >>] >>] >>],
       [k |-> "Etapa 4", v |-> << [k |-> "Logica", v |-> << >>] >>] >>

\* A catalog without any resource.
ZeroCatalog ==
    << [k |-> "Etapa 1", v |-> << [k |-> "Portugues", v |-> << [k |-> "PDFs", v |-> << >>] >>] >>],
       [k |-> "Etapa 2", v |-> << >>] >>

\* A catalog whose names hold the separator of the key: the stages "Etapa 1"
\* and "Etapa 1_A", with the subjects "A_B" and "B".
SeparatorCatalog ==
    << [k |-> "Etapa 1",
        v |-> << [k |-> "A_B", v |-> << [k |-> "PDFs", v |-> << Resource("Resumo em PDF") >>] >>] >>],
       [k |-> "Etapa 1_A",
        v |-> << [k |-> "B", v |-> << [k |-> "PDFs", v |-> << Resource("Resumo em PDF") >>] >>] >>] >>

ViewCatalogs == {SparseCatalog, ZeroCatalog, SeparatorCatalog}

\* The terms typed in the search field.
SearchTerms == {"", "PDF", "aula", "zzz"}

\* The durations handed to add_study_session: the default of the form, and
\* integers that are not positive.
Durations == {60, 0}

-----------------------------------------------------------------------------
(* The progress state before any access of the session *)

NoPrior == [op |-> "none", arg |-> PyNone, pre |-> Absent]

NoOp == [op |-> "none", arg |-> PyNone, pre |-> Absent, ret |-> PyNone, raised |-> FALSE,
         prior |-> NoPrior]

NoSchedule == [raised |-> FALSE, value |-> << >>]

-----------------------------------------------------------------------------
(* Specification of the schedule generator: the inputs are drawn in the      *)
(* initial state and the function is applied to them.                        *)

InitSchedule ==
    /\ study_data \in ScheduleCatalogs
    /\ start_date \in StartDates
    /\ schedule = NoSchedule
    /\ user_progress = Absent
    /\ now = 0
    /\ backup = NoBackup
    /\ last = NoOp

CreateStudySchedule ==
    /\ schedule' = create_study_schedule(start_date, end_date_fixed, study_data)
    /\ last' = [NoOp EXCEPT !.op = "create_study_schedule"]
    /\ UNCHANGED <<study_data, start_date, user_progress, now, backup>>

NextSchedule == CreateStudySchedule

SpecSchedule == InitSchedule /\ [][NextSchedule]_vars

-----------------------------------------------------------------------------
(* Properties of the schedule generator *)

Scheduled == last.op = "create_study_schedule"

NonEmptyStages == {i \in 1..Len(study_data) : Len(study_data[i].v) > 0}

plan == schedule.value

EntryStart(i) == strptime(plan[i].Data_Inicio)
EntryEnd(i) == strptime(plan[i].Data_Fim)

\* C1: for a start date <= the fixed end date and a catalog with at least one
\* non-empty stage, the last entry of the returned plan ends exactly on the
\* fixed end date.
C1_LastEntryEndsAtFixedEnd ==
    (Scheduled /\ start_date <= end_date_fixed /\ NonEmptyStages # {})
        => /\ ~schedule.raised
           /\ Len(plan) >= 1
           /\ plan[Len(plan)].Data_Fim = strftime(end_date_fixed)

\* C2: for a catalog with at least one non-empty stage, the first entry of the
\* plan starts on the given start date and each entry starts the day after the
\* previous entry ends, empty stages leaving no gap.
C2_FirstAtStartAndContiguous ==
    (Scheduled /\ NonEmptyStages # {})
        => /\ ~schedule.raised
           /\ Len(plan) = Cardinality(NonEmptyStages)
           /\ plan[1].Data_Inicio = strftime(start_date)
           /\ \A i \in 1..(Len(plan) - 1) : EntryStart(i + 1) = EntryEnd(i) + 1

\* A plan of two entries was made for a catalog with an empty stage before
\* its last stage.
C2_Witness ==
    /\ Scheduled
    /\ Len(plan) >= 2
    /\ \E i \in 1..Len(study_data) : i \notin NonEmptyStages /\ i < Len(study_data)
    /\ EntryStart(2) = EntryEnd(1) + 1
    /\ EntryStart(2) > start_date

\* C9: for a start date <= the fixed end date and a catalog with at least one
\* non-empty stage, the entries partition [start date, fixed end date]: every
\* entry has start <= end and every day of the interval lies in exactly one entry.
C9_EntriesPartitionInterval ==
    (Scheduled /\ start_date <= end_date_fixed /\ NonEmptyStages # {})
        => /\ ~schedule.raised
           /\ \A i \in 1..Len(plan) : EntryStart(i) <= EntryEnd(i)
           /\ \A day \in start_date..end_date_fixed :
                Cardinality({i \in 1..Len(plan) :
                                EntryStart(i) <= day /\ day <= EntryEnd(i)}) = 1

\* C10: for a catalog with no non-empty stage and any pair of dates, the
\* generator returns an empty plan and raises nothing.
C10_NoStagesEmptyPlan ==
    (Scheduled /\ NonEmptyStages = {})
        => /\ ~schedule.raised
           /\ plan = << >>

\* The generator returned for a catalog whose stages are all empty, with the
\* start date after the end date.
C10_Witness ==
    /\ Scheduled
    /\ Len(study_data) >= 2
    /\ NonEmptyStages = {}
    /\ start_date > end_date_fixed
    /\ ~schedule.raised
    /\ plan = << >>

\* C20: with total_days_available = (end - start).days + 1 and n non-empty
\* stages, every entry but the one of the last non-empty stage spans exactly
\* floor(total_days_available / n) days; from 2025-01-01 with 5 non-empty
\* stages that is 277 days, 55 days for each of the stages 1 to 4, and stage 5
\* ends on 2025-10-04.
C20_EntriesSpanFloorOfAverage ==
    (Scheduled /\ NonEmptyStages # {})
        => LET total == (end_date_fixed - start_date) + 1
               n == Cardinality(NonEmptyStages)
           IN  /\ ~schedule.raised
               /\ Len(plan) = n
               /\ \A i \in 1..(n - 1) : EntryEnd(i) = EntryStart(i) + (total \div n) - 1
               /\ (start_date = date(2025, 1, 1) /\ n = 5)
                    => /\ total = 277
                       /\ \A i \in 1..4 : (EntryEnd(i) - EntryStart(i)) + 1 = 55
                       /\ plan[5].Data_Fim = "04/10/2025"

-----------------------------------------------------------------------------
(* Specification of the progress state: the operations of the session, in    *)
(* any order, MaxOps of them.                                                *)

Init ==
    /\ study_data \in ProgressCatalogs
    /\ start_date = end_date_fixed
    /\ schedule = NoSchedule
    /\ user_progress = Absent
    /\ now = 0
    /\ backup = NoBackup
    /\ last = NoOp

\* One operation: the state it leaves, the clock, and the record of it.
Step(op, arg, r) ==
    /\ now < MaxOps
    /\ now' = now + 1
    /\ user_progress' = r.up
    /\ last' = [op |-> op, arg |-> arg, pre |-> user_progress, ret |-> r.ret,
                raised |-> r.raised,
                prior |-> [op |-> last.op, arg |-> last.arg, pre |-> last.pre]]
    /\ UNCHANGED <<study_data, start_date, schedule>>

Main ==
    /\ Step("main", PyNone, main_start(user_progress, now))
    /\ UNCHANGED backup

AddCompletedResource ==
    \E key \in Keys :
        /\ Step("add_completed_resource", PyStr(key), add_completed_resource(user_progress, key, now))
        /\ UNCHANGED backup

RemoveCompletedResource ==
    \E key \in Keys :
        /\ Step("remove_completed_resource", PyStr(key),
                remove_completed_resource(user_progress, key, now))
        /\ UNCHANGED backup

IsResourceCompleted ==
    \E key \in Keys :
        /\ Step("is_resource_completed", PyStr(key), is_resource_completed(user_progress, key, now))
        /\ UNCHANGED backup

UpdateStartDate ==
    \E new_date \in NewStartDates :
        /\ Step("update_start_date", PyInt(new_date), update_start_date(user_progress, new_date, now))
        /\ UNCHANGED backup

AddStudySession ==
    \E duration_minutes \in Durations :
        /\ Step("add_study_session", PyInt(duration_minutes),
                add_study_session(user_progress, duration_minutes, <<"Portugues">>, now))
        /\ UNCHANGED backup

ExportProgressData ==
    LET r == export_progress_data(user_progress, now)
    IN  /\ Step("export_progress_data", PyNone, r)
        /\ backup' = IF r.raised THEN backup ELSE r.ret

\* import_progress_data of a text of ImportTexts, or of the last export
ImportProgressData ==
    /\ \/ \E i \in 1..Len(ImportTexts) :
            Step("import_progress_data", ImportTexts[i],
                 import_progress_data(user_progress, ImportTexts[i], now))
       \/ /\ backup[1] # "none"
          /\ Step("import_progress_data", backup, import_progress_data(user_progress, backup, now))
    /\ UNCHANGED backup

ResetProgressOnly ==
    /\ study_data # << >>
    /\ Step("reset_progress_only", PyNone, reset_progress_only(user_progress, now))
    /\ UNCHANGED backup

ResetAll ==
    /\ study_data # << >>
    /\ Step("reset_all", PyNone, reset_all(user_progress, now))
    /\ UNCHANGED backup

Progresso ==
    /\ study_data # << >>
    /\ Step("progresso", PyNone, progress_view(user_progress, study_data, now))
    /\ UNCHANGED backup

Next ==
    \/ Main
    \/ AddCompletedResource
    \/ RemoveCompletedResource
    \/ IsResourceCompleted
    \/ UpdateStartDate
    \/ AddStudySession
    \/ ExportProgressData
    \/ ImportProgressData
    \/ ResetProgressOnly
    \/ ResetAll
    \/ Progresso

Spec == Init /\ [][Next]_vars

-----------------------------------------------------------------------------
(* Properties of the progress state *)

\* The list user_progress["completed_resources"] of a progress state.
Completed(up) == up[2]["completed_resources"][2]

CompletedSet(up) == {Completed(up)[i] : i \in 1..Len(Completed(up))}

Occurrences(seq, value) == Cardinality({i \in 1..Len(seq) : seq[i] = value})

\* The session holds no progress state yet, or one that is a mapping.
WellFormed(up) == up[1] \in {"absent", "dict"}

Imported == last.op = "import_progress_data"

\* C3: import_progress_data on a parsed document that lacks one of the fields
\* start_date, completed_resources and study_sessions returns False and leaves
\* the progress state, last_access included, as it was.
C3_ImportLackingFieldRejected ==
    (/\ Imported
     /\ last.arg[1] = "object"
     /\ \E field \in RequiredFields : field \notin DOMAIN last.arg[2])
        => /\ ~last.raised
           /\ last.ret = PyBool(FALSE)
           /\ user_progress = last.pre

\* A backup without study_sessions was refused in a session with a completed
\* resource.
C3_Witness ==
    /\ Imported
    /\ last.arg = Without(FullBackup, "study_sessions")
    /\ last.pre[1] = "dict"
    /\ Len(Completed(last.pre)) >= 1
    /\ last.ret = PyBool(FALSE)
    /\ user_progress = last.pre

\* C4: import_progress_data returns a boolean and raises nothing for every
\* text; a text that is no JSON document, or whose value is no mapping, yields
\* False and leaves the progress state as it was.
C4_ImportNeverRaises ==
    Imported
        => /\ ~last.raised
           /\ last.ret \in {PyBool(TRUE), PyBool(FALSE)}
           /\ (last.arg[1] # "object") => (last.ret = PyBool(FALSE) /\ user_progress = last.pre)

\* Exporting the state up at time n and importing the text gives back the
\* completed keys, the study sessions, the start date and the settings.
RoundTrips(up, n) ==
    LET e == export_progress_data(up, n)
    IN  /\ ~e.raised
        /\ LET i == import_progress_data(e.up, e.ret, n + 1)
           IN  /\ ~i.raised
               /\ i.ret = PyBool(TRUE)
               /\ \A field \in {"completed_resources", "study_sessions", "start_date", "settings"} :
                    /\ (field \in DOMAIN up[2]) <=> (field \in DOMAIN i.up[2])
                    /\ (field \in DOMAIN up[2]) => (i.up[2][field] = up[2][field])

\* C5: in every state with a progress state, import_progress_data of what
\* export_progress_data returns is accepted and restores the completed keys,
\* the study sessions, the start date and the settings.
C5_ExportImportRoundTrip ==
    (user_progress[1] # "absent") => RoundTrips(user_progress, now)

\* C6: add_completed_resource(k) twice leaves the completed list as the first
\* call left it, and k is in it at most once.
C6_MarkCompleteIdempotent ==
    WellFormed(user_progress) =>
        \A key \in Keys :
            LET r1 == add_completed_resource(user_progress, key, now)
                r2 == add_completed_resource(r1.up, key, now + 1)
            IN  /\ ~r1.raised
                /\ ~r2.raised
                /\ Completed(r2.up) = Completed(r1.up)
                /\ Occurrences(Completed(r2.up), PyStr(key)) <= 1

\* add_completed_resource(key) then remove_completed_resource(key) from the
\* state up leave the completed set as it was.
MarkThenUnmarkRestores(up, key, n) ==
    LET r1 == add_completed_resource(up, key, n)
        r2 == remove_completed_resource(r1.up, key, n + 1)
    IN  /\ ~r1.raised
        /\ ~r2.raised
        /\ CompletedSet(r2.up) = CompletedSet(initialize_user_data(up, n))

\* C7 as claimed: for every key, complete or not, add_completed_resource then
\* remove_completed_resource restore the completed set.
C7_MarkThenUnmarkRestoresAlways ==
    WellFormed(user_progress) =>
        \A key \in Keys : MarkThenUnmarkRestores(user_progress, key, now)

\* C7, amended: for every key that is not in the completed set,
\* add_completed_resource then remove_completed_resource restore the
\* completed set.
C7_MarkThenUnmarkRestoresIfNew ==
    WellFormed(user_progress) =>
        \A key \in Keys :
            PyStr(key) \notin CompletedSet(initialize_user_data(user_progress, now))
                => /\ MarkThenUnmarkRestores(user_progress, key, now)
                   /\ PyStr(key) \in CompletedSet(add_completed_resource(user_progress, key, now).up)

\* A key that was not completed was marked and then unmarked in a session
\* with other completed resources, which are as they were.
C7_Witness ==
    /\ last.op = "remove_completed_resource"
    /\ last.prior.op = "add_completed_resource"
    /\ last.prior.arg = last.arg
    /\ last.prior.pre[1] = "dict"
    /\ Len(Completed(last.prior.pre)) >= 1
    /\ last.arg \notin CompletedSet(last.prior.pre)
    /\ last.arg \in CompletedSet(last.pre)
    /\ ~last.raised
    /\ Completed(user_progress) = Completed(last.prior.pre)

\* The resources of the catalog whose key is in the completed list.
CompletedPlaces(up, catalog) ==
    {p \in UNION {StagePlaces(catalog, w) : w \in 1..Len(catalog)} :
        PyStr(PlaceKey(catalog, p)) \in CompletedSet(up)}

RECURSIVE Sum(_, _)
Sum(f, S) ==
    IF S = {} THEN 0
    ELSE LET x == CHOOSE y \in S : TRUE IN f[x] + Sum(f, S \ {x})

\* C8: the completed count of the view Progresso is the number of catalog
\* resources whose key is in the completed list, so that the percentage is at
\* most 100, is 30 for 3 completed of 10, and the count is the sum of the
\* counts per stage.
C8_CompletedCountByMembership ==
    (last.op = "progresso" /\ ~last.raised)
        => LET m == last.ret[2]
               members == Cardinality(CompletedPlaces(user_progress, study_data))
           IN  /\ m.completed_resources = members
               /\ m.progress_percentage[1] <= 100 * m.progress_percentage[2]
               /\ (m.total_resources = 10 /\ members = 3)
                    => (m.progress_percentage[1] = 30 * m.progress_percentage[2])
               /\ m.completed_resources = Sum(m.week_completed, DOMAIN m.week_completed)

-----------------------------------------------------------------------------
(* Further properties of the progress state *)

\* The operations of the progress state, the views apart.
EngineOps ==
    {"add_completed_resource", "remove_completed_resource", "is_resource_completed",
     "add_study_session", "update_start_date", "export_progress_data",
     "import_progress_data", "reset_progress_only"}

StateFields ==
    {"start_date", "completed_resources", "study_sessions", "settings", "last_access",
     "initialization_date"}

\* The session holds a progress state with the six fields.
Initialized(up) == up[1] = "dict" /\ StateFields \subseteq DOMAIN up[2]

\* C11: each operation of the progress state, as the first operation of a
\* session without a progress state, raises nothing and leaves an initialized
\* progress state.
C11_FirstOperationInitializes ==
    (last.op \in EngineOps /\ last.pre = Absent)
        => /\ ~last.raised
           /\ Initialized(user_progress)

\* The time of the last operation.
CallTime == now - 1

\* C12: the button "Resetar apenas progresso" empties the completed list and
\* leaves the study sessions, the settings, the start date and the
\* initialization date as they were.
C12_ResetProgressOnlyFrame ==
    (last.op = "reset_progress_only" /\ ~last.raised)
        => LET before == initialize_user_data(last.pre, CallTime)
           IN  /\ Completed(user_progress) = << >>
               /\ \A field \in {"study_sessions", "settings", "start_date", "initialization_date"} :
                    /\ (field \in DOMAIN before[2]) <=> (field \in DOMAIN user_progress[2])
                    /\ (field \in DOMAIN before[2]) => (user_progress[2][field] = before[2][field])

\* The progress was reset in a session with completed resources, a study
\* session and settings that are not the default ones.
C12_Witness ==
    /\ last.op = "reset_progress_only"
    /\ ~last.raised
    /\ last.pre[1] = "dict"
    /\ Len(Completed(last.pre)) >= 1
    /\ Len(last.pre[2]["study_sessions"][2]) >= 1
    /\ last.pre[2]["settings"] # default_user_progress(0)[2]["settings"]
    /\ Completed(user_progress) = << >>
    /\ user_progress[2]["study_sessions"] = last.pre[2]["study_sessions"]

\* The session holds a list of study sessions, or no progress state yet.
HasLog(up) ==
    \/ up[1] = "absent"
    \/ /\ up[1] = "dict"
       /\ "study_sessions" \in DOMAIN up[2]
       /\ up[2]["study_sessions"][1] = "list"

Log(up) == IF up[1] = "absent" THEN << >> ELSE up[2]["study_sessions"][2]

\* C15: add_study_session takes a positive duration only: after a call every
\* session of the list has duration_minutes >= 1, a call with a duration < 1
\* adding none.
C15_SessionDurationsPositive ==
    (last.op = "add_study_session" /\ HasLog(user_progress))
        => /\ \A i \in 1..Len(Log(user_progress)) :
                Log(user_progress)[i][2]["duration_minutes"][2] >= 1
           /\ (last.arg[2] < 1 /\ HasLog(last.pre)) => (Log(user_progress) = Log(last.pre))

\* C18: every call of add_completed_resource, remove_completed_resource,
\* add_study_session and update_start_date sets last_access to the time of the
\* call, a call that changes nothing included.
C18_MutatorsStampLastAccess ==
    (/\ last.op \in {"add_completed_resource", "remove_completed_resource",
                     "add_study_session", "update_start_date"}
     /\ ~last.raised)
        => /\ user_progress[1] = "dict"
           /\ "last_access" \in DOMAIN user_progress[2]
           /\ user_progress[2]["last_access"] = PyStr(now_isoformat(CallTime))

IsPrefix(s, t) == Len(s) <= Len(t) /\ SubSeq(t, 1, Len(s)) = s

\* C19: across every operation but the complete reset and an accepted import
\* the list of study sessions before is a prefix of the list after, and
\* add_study_session adds exactly one session at its end.
C19_SessionLogAppendOnly ==
    (/\ last.op \notin {"none", "reset_all"}
     /\ ~(Imported /\ last.ret = PyBool(TRUE))
     /\ HasLog(last.pre))
        => /\ HasLog(user_progress)
           /\ IsPrefix(Log(last.pre), Log(user_progress))
           /\ (last.op = "add_study_session")
                => (Len(Log(user_progress)) = Len(Log(last.pre)) + 1)

-----------------------------------------------------------------------------
(* Specification of the key derivation: two argument lists are drawn in the  *)
(* initial state and resource_key is applied to both.                        *)

\* Argument lists <<week_name, subject_name, resource_type, i, description>>;
\* names may hold the separator, and two descriptions share their first
\* KeyPrefixLen characters.
KeyArguments ==
    {"Etapa 1", "Etapa 1_A"} \X {"B", "A_B"} \X {"PDFs", "Videos"} \X (1..MaxPosition)
        \X {"Lei 8112", "Constituicao Federal comentada", "Constituicao Federal anotada"}

InitKey ==
    /\ study_data = << >>
    /\ start_date = end_date_fixed
    /\ schedule = NoSchedule
    /\ user_progress = Absent
    /\ now = 0
    /\ backup = NoBackup
    /\ \E a \in KeyArguments, b \in KeyArguments :
            last = [NoOp EXCEPT !.arg = <<"arguments", a, b>>]

ResourceKey ==
    /\ last.op = "none"
    /\ LET a == last.arg[2]
           b == last.arg[3]
       IN  last' = [last EXCEPT !.op = "resource_key",
                                !.ret = <<"keys",
                                          resource_key(a[1], a[2], a[3], a[4], a[5]),
                                          resource_key(b[1], b[2], b[3], b[4], b[5])>>]
    /\ UNCHANGED <<study_data, start_date, schedule, user_progress, now, backup>>

NextKey == ResourceKey

SpecKey == InitKey /\ [][NextKey]_vars

\* resource['description'][:20]
DescriptionPrefix(description) ==
    SubSeq(description, 1, IF Len(description) < KeyPrefixLen
                           THEN Len(description) ELSE KeyPrefixLen)

\* The components of two argument lists that differ, the description counted
\* by its prefix.
DifferingComponents(a, b) ==
    {c \in 1..4 : a[c] # b[c]}
        \cup (IF DescriptionPrefix(a[5]) # DescriptionPrefix(b[5]) THEN {5} ELSE {})

\* C14: resource_key gives the same key for the same arguments, and another
\* key when exactly one of stage, subject, resource type, position and
\* description prefix is changed.
C14_KeyDeterministicAndSensitive ==
    (last.op = "resource_key")
        => LET a == last.arg[2]
               b == last.arg[3]
           IN  /\ (a = b) => (last.ret[2] = last.ret[3])
               /\ (Cardinality(DifferingComponents(a, b)) = 1) => (last.ret[2] # last.ret[3])

\* Two keys were derived for resources that differ in their subject only,
\* with a description longer than the prefix, and the keys differ.
C14_Witness ==
    /\ last.op = "resource_key"
    /\ DifferingComponents(last.arg[2], last.arg[3]) = {2}
    /\ Len(last.arg[2][5]) > KeyPrefixLen
    /\ last.ret[2] # last.ret[3]

-----------------------------------------------------------------------------
(* Specification of the views: the pages "Estudo por Etapa", "Progresso" and *)
(* "Buscar Recursos" on catalogs with empty levels.                          *)

InitViews ==
    /\ study_data \in ViewCatalogs
    /\ start_date = end_date_fixed
    /\ schedule = NoSchedule
    /\ user_progress = Absent
    /\ now = 0
    /\ backup = NoBackup
    /\ last = NoOp

DisplaySubjectResources ==
    /\ study_data # << >>
    /\ \E i \in 1..Len(search_places(study_data)) :
          LET p == search_places(study_data)[i]
          IN  Step("display_subject_resources", PyStr(PlaceKey(study_data, p)),
                   display_subject_resources(user_progress, study_data, p, now))
    /\ UNCHANGED backup

BuscarRecursos ==
    /\ study_data # << >>
    /\ \E search_term \in SearchTerms :
          Step("buscar_recursos", PyStr(search_term),
               search_view(user_progress, study_data, search_term, now))
    /\ UNCHANGED backup

NextViews ==
    \/ DisplaySubjectResources
    \/ AddStudySession
    \/ Progresso
    \/ BuscarRecursos

SpecViews == InitViews /\ [][NextViews]_vars

-----------------------------------------------------------------------------
(* Properties of the views *)

Searched == last.op = "buscar_recursos"

AllPlaces(catalog) == UNION {StagePlaces(catalog, w) : w \in 1..Len(catalog)}

\* Two characters that are the same letter, whatever their case.
CasePairs ==
    { <<"A", "a">>, <<"B", "b">>, <<"C", "c">>, <<"D", "d">>, <<"E", "e">>, <<"F", "f">>,
      <<"G", "g">>, <<"H", "h">>, <<"I", "i">>, <<"J", "j">>, <<"K", "k">>, <<"L", "l">>,
      <<"M", "m">>, <<"N", "n">>, <<"O", "o">>, <<"P", "p">>, <<"Q", "q">>, <<"R", "r">>,
      <<"S", "s">>, <<"T", "t">>, <<"U", "u">>, <<"V", "v">>, <<"W", "w">>, <<"X", "x">>,
      <<"Y", "y">>, <<"Z", "z">> }

SameLetter(c, d) == c = d \/ <<c, d>> \in CasePairs \/ <<d, c>> \in CasePairs

\* term is a substring of text, the case of the letters ignored.
ContainsIgnoringCase(text, term) ==
    \E i \in 1..(Len(text) - Len(term) + 1) :
        \A j \in 1..Len(term) :
            SameLetter(SubSeq(text, i + j - 1, i + j - 1), SubSeq(term, j, j))

\* Place p comes before place q in the order stage, subject, resource type,
\* position.
Before(p, q) ==
    \E c \in 1..4 : p[c] < q[c] /\ \A b \in 1..(c - 1) : p[b] = q[b]

\* The places of the catalog whose description holds the term.
MatchingPlaces(catalog, term) ==
    {p \in AllPlaces(catalog) :
        ContainsIgnoringCase(PlaceResource(catalog, p).description, term)}

\* C13: for a non-empty term the search returns exactly the resources whose
\* description holds the term, the case ignored, each once and in the order
\* stage, subject, resource type, position, each with the key of its own place
\* and with the flag of that key being in the completed list.
C13_SearchReturnsMatchesInOrder ==
    (Searched /\ last.arg[2] # "")
        => LET found == MatchingPlaces(study_data, last.arg[2])
               search_results == last.ret[2]
           IN  /\ ~last.raised
               /\ Len(search_results) = Cardinality(found)
               /\ \A p \in found :
                    LET j == Cardinality({q \in found : Before(q, p)}) + 1
                    IN  /\ search_results[j].Etapa = study_data[p[1]].k
                        /\ search_results[j].Materia = study_data[p[1]].v[p[2]].k
                        /\ search_results[j].Tipo = study_data[p[1]].v[p[2]].v[p[3]].k
                        /\ search_results[j].Descricao = PlaceResource(study_data, p).description
                        /\ search_results[j].URL = PlaceResource(study_data, p).url
                        /\ search_results[j].Key =
                                resource_key(study_data[p[1]].k, study_data[p[1]].v[p[2]].k,
                                             study_data[p[1]].v[p[2]].v[p[3]].k, p[4],
                                             PlaceResource(study_data, p).description)
                        /\ (search_results[j].Concluido = "[v]")
                                <=> (PyStr(search_results[j].Key) \in CompletedSet(user_progress))
                        /\ search_results[j].Concluido \in {"[v]", "[x]"}

\* The term "PDF" found the two resources whose descriptions hold "PDF" and
\* "pdf", of two subjects, the first completed and the second not.
C13_Witness ==
    /\ Searched
    /\ last.arg = PyStr("PDF")
    /\ ~last.raised
    /\ Len(last.ret[2]) = 2
    /\ last.ret[2][1].Descricao = "Questoes em PDF"
    /\ last.ret[2][1].Concluido = "[v]"
    /\ last.ret[2][2].Descricao = "Questoes de prova em pdf"
    /\ last.ret[2][2].Concluido = "[x]"

\* C16: the view Progresso never divides by zero: without resources the
\* percentage is 0, a stage without resources gets no percentage, and without
\* study sessions no average is computed.
C16_MetricsNeverDivideByZero ==
    (last.op = "progresso")
        => /\ ~last.raised
           /\ LET m == last.ret[2]
               IN  /\ (m.total_resources = 0) => (m.progress_percentage[1] = 0)
                   /\ m.progress_percentage[2] # 0
                   /\ \A w \in 1..Len(study_data) :
                        /\ (StagePlaces(study_data, w) = {}) => (w \notin DOMAIN m.week_progress)
                        /\ (w \in DOMAIN m.week_progress) => (m.week_progress[w][2] # 0)
                   /\ (Log(user_progress) = << >>) => (m.statistics = NoStatistics)
                   /\ (m.statistics # NoStatistics) => (m.statistics[2].avg_session[2] # 0)

\* The view was shown for a catalog with resources and with stages that have
\* subjects but no resource, in a session without study sessions.
C16_Witness ==
    /\ last.op = "progresso"
    /\ ~last.raised
    /\ last.ret[2].total_resources > 0
    /\ \E w \in 1..Len(study_data) :
            /\ Len(study_data[w].v) > 0
            /\ StagePlaces(study_data, w) = {}
            /\ w \notin DOMAIN last.ret[2].week_progress
    /\ Log(user_progress) = << >>
    /\ last.ret[2].statistics = NoStatistics

\* C17: for the empty term the search returns no result, whatever the catalog
\* and the progress state, and leaves the progress state as the start of the
\* page left it.
C17_EmptyTermNoResults ==
    (Searched /\ last.arg[2] = "")
        => /\ ~last.raised
           /\ last.ret = <<"search_results", << >>>>
           /\ user_progress = main_start(last.pre, CallTime).up

\* The empty term was searched in a catalog with resources, one of them
\* completed.
C17_Witness ==
    /\ Searched
    /\ last.arg = PyStr("")
    /\ AllPlaces(study_data) # {}
    /\ last.pre[1] = "dict"
    /\ Len(Completed(last.pre)) >= 1
    /\ last.ret = <<"search_results", << >>>>

-----------------------------------------------------------------------------
(* Properties of the completion flag and of the fields of the progress state *)

\* C21: is_resource_completed follows the last mark in every state, the states
\* installed by an accepted import included: it is False right after
\* remove_completed_resource(k) and True right after add_completed_resource(k).
C21_IsCompleteReflectsLastMark ==
    /\ (last.op = "remove_completed_resource" /\ ~last.raised)
            => (is_resource_completed(user_progress, last.arg[2], now).ret = PyBool(FALSE))
    /\ (last.op = "add_completed_resource" /\ ~last.raised)
            => (is_resource_completed(user_progress, last.arg[2], now).ret = PyBool(TRUE))

\* C22: a progress state always holds the six fields start_date,
\* completed_resources, study_sessions, settings, last_access and
\* initialization_date, whatever operations came before, so that the page
\* "Dados e Backup", which reads initialization_date, raises nothing.
C22_StateKeepsSixFields ==
    (user_progress[1] = "dict")
        => /\ Initialized(user_progress)
           /\ ~dados_e_backup_start(user_progress, now).raised

\* The places of the catalog whose completion flag differs in the states up
\* and up2.
FlagChanged(catalog, up, up2, n) ==
    {q \in AllPlaces(catalog) :
        is_resource_completed(up, PlaceKey(catalog, q), n).ret
            # is_resource_completed(up2, PlaceKey(catalog, q), n).ret}

\* C23: two different resources of a catalog never have the same key, so
\* marking or unmarking a resource changes the completion flag of no other
\* resource.
C23_DistinctResourcesDistinctKeys ==
    /\ \A p \in AllPlaces(study_data), q \in AllPlaces(study_data) :
            (p # q) => (PlaceKey(study_data, p) # PlaceKey(study_data, q))
    /\ (last.op = "display_subject_resources" /\ ~last.raised)
            => (Cardinality(FlagChanged(study_data, last.pre, user_progress, now)) <= 1)

====
